---------------------------- MODULE Spec2Model ----------------------------
(***************************************************************************)
(* A model of the rope of src/src/index.ts: a binary tree of string        *)
(* fragments with cached weight and height, built by midpoint bisection,   *)
(* edited through split and concat, and balanced by one AVL step on every  *)
(* node concat creates.                                                    *)
(*                                                                         *)
(* A string is a sequence of one-character strings.  A node is a record    *)
(* with the fields of RopeNode; the tree is the value of its root.  The    *)
(* code's nodes are heap objects mutated in place, but every node has one  *)
(* owner at a time (split hands the children of the nodes it takes apart   *)
(* to concat, and drops those nodes), so the value of the tree is all a    *)
(* later call can observe.  RopeNode.parent is written by the rotations    *)
(* and by concat and is read nowhere except to be copied by a rotation,    *)
(* so it is not a field here.                                              *)
(***************************************************************************)
EXTENDS Integers, Sequences, FiniteSets, TLC

VARIABLES root,   \* Rope.root: a node, or Null
          prev,   \* Rope.root as it was when the last call began
          ref,    \* the reference string kept beside the rope
          call,   \* the last public call: its name and arguments
          ret,    \* how that call ended: its error, or its returned value
          budget  \* the number of calls the behaviour may still make

vars == <<root, prev, ref, call, ret, budget>>

\* src/src/index.ts:24
LEAF_LENGTH_THRESHOLD == 1024

\* the number of calls in a behaviour of Spec
MaxOps == 2

\* the number of calls in a behaviour of SpecEdit
MaxEdits == 5

Null == [type |-> "NULL"]

NoError == "none"
IndexOutOfBounds == "Index out of bounds"
InvalidRange == "Invalid range"
InvalidStructure == "Invalid rope structure"

Max(a, b) == IF a >= b THEN a ELSE b

Min(a, b) == IF a <= b THEN a ELSE b

\* String.prototype.substring(a, b): both ends are clamped to the string and
\* swapped when a > b; positions count from 0 and b is not included.
jsSubstring(s, a, b) ==
    LET ca == Max(0, Min(a, Len(s)))
        cb == Max(0, Min(b, Len(s)))
    IN  SubSeq(s, Min(ca, cb) + 1, Max(ca, cb))

\* new RopeNode(value): a leaf
RopeNode(v) ==
    [type |-> "LEAF", left |-> Null, right |-> Null,
     weight |-> Len(v), value |-> v, height |-> 1]

RECURSIVE getNodeWeight(_)
getNodeWeight(node) ==
    IF node = Null THEN 0
    ELSE IF node.type = "LEAF" THEN Len(node.value)
    ELSE getNodeWeight(node.left) + getNodeWeight(node.right)

\* updateNodeMetadata taking the left child's cached weight for the length of
\* the whole left subtree
updateNodeMetadata_childWeight(node) ==
    IF node.type = "LEAF"
    THEN [node EXCEPT !.weight = Len(node.value), !.height = 1]
    ELSE LET leftHeight  == IF node.left # Null THEN node.left.height ELSE 0
             rightHeight == IF node.right # Null THEN node.right.height ELSE 0
         IN  [node EXCEPT !.weight = IF node.left # Null THEN node.left.weight
                                     ELSE 0,
                          !.height = Max(leftHeight, rightHeight) + 1]

updateNodeMetadata(node) ==
    IF node.type = "LEAF"
    THEN [node EXCEPT !.weight = Len(node.value), !.height = 1]
    ELSE LET leftHeight  == IF node.left # Null THEN node.left.height ELSE 0
             rightHeight == IF node.right # Null THEN node.right.height ELSE 0
         IN  [node EXCEPT !.weight = getNodeWeight(node.left),
                          !.height = Max(leftHeight, rightHeight) + 1]

\* createOptimalTree cutting one full leaf off the front instead of bisecting
RECURSIVE createOptimalTree_chunks(_, _, _)
createOptimalTree_chunks(str, start, end) ==
    IF end - start <= LEAF_LENGTH_THRESHOLD
    THEN RopeNode(jsSubstring(str, start, end))
    ELSE LET mid == start + LEAF_LENGTH_THRESHOLD
         IN  updateNodeMetadata(
                 [type |-> "INTERNAL",
                  left |-> createOptimalTree_chunks(str, start, mid),
                  right |-> createOptimalTree_chunks(str, mid, end),
                  weight |-> 0, value |-> <<>>, height |-> 1])

RECURSIVE createOptimalTree(_, _, _)
createOptimalTree(str, start, end) ==
    IF end - start <= LEAF_LENGTH_THRESHOLD
    THEN RopeNode(jsSubstring(str, start, end))
    ELSE LET mid == (start + end) \div 2
         IN  updateNodeMetadata(
                 [type |-> "INTERNAL",
                  left |-> createOptimalTree(str, start, mid),
                  right |-> createOptimalTree(str, mid, end),
                  weight |-> 0, value |-> <<>>, height |-> 1])

getBalanceFactor(node) ==
    IF node = Null THEN 0
    ELSE LET leftHeight  == IF node.left # Null THEN node.left.height ELSE 0
             rightHeight == IF node.right # Null THEN node.right.height ELSE 0
         IN  leftHeight - rightHeight

rotateRight(y) ==
    LET x  == y.left
        T2 == x.right
        y2 == updateNodeMetadata([y EXCEPT !.left = T2])
    IN  updateNodeMetadata([x EXCEPT !.right = y2])

rotateLeft(x) ==
    LET y  == x.right
        T2 == y.left
        x2 == updateNodeMetadata([x EXCEPT !.right = T2])
    IN  updateNodeMetadata([y EXCEPT !.left = x2])

balance(n) ==
    LET node == updateNodeMetadata(n)
        balanceFactor == getBalanceFactor(node)
    IN  IF balanceFactor > 1
        THEN IF getBalanceFactor(node.left) >= 0
             THEN rotateRight(node)
             ELSE rotateRight([node EXCEPT !.left = rotateLeft(node.left)])
        ELSE IF balanceFactor < -1
        THEN IF getBalanceFactor(node.right) <= 0
             THEN rotateLeft(node)
             ELSE rotateLeft([node EXCEPT !.right = rotateRight(node.right)])
        ELSE node

\* concat merging two small leaves in the wrong order
concat_swapped(left, right) ==
    IF left = Null THEN right
    ELSE IF right = Null THEN left
    ELSE IF /\ left.type = "LEAF"
            /\ right.type = "LEAF"
            /\ Len(left.value) + Len(right.value) <= LEAF_LENGTH_THRESHOLD
    THEN [left EXCEPT !.value = right.value \o left.value,
                      !.weight = Len(left.value) + Len(right.value)]
    ELSE balance(updateNodeMetadata(
             [type |-> "INTERNAL", left |-> left, right |-> right,
              weight |-> 0, value |-> <<>>, height |-> 1]))

concat(left, right) ==
    IF left = Null THEN right
    ELSE IF right = Null THEN left
    ELSE IF /\ left.type = "LEAF"
            /\ right.type = "LEAF"
            /\ Len(left.value) + Len(right.value) <= LEAF_LENGTH_THRESHOLD
    THEN [left EXCEPT !.value = left.value \o right.value,
                      !.weight = Len(left.value) + Len(right.value)]
    ELSE balance(updateNodeMetadata(
             [type |-> "INTERNAL", left |-> left, right |-> right,
              weight |-> 0, value |-> <<>>, height |-> 1]))

RECURSIVE split(_, _)
split(node, index) ==
    IF node.type = "LEAF"
    THEN IF index = 0 THEN <<Null, node>>
         ELSE IF index = Len(node.value) THEN <<node, Null>>
         ELSE <<RopeNode(jsSubstring(node.value, 0, index)),
                RopeNode(jsSubstring(node.value, index, Len(node.value)))>>
    ELSE IF index < node.weight
    THEN LET lr == split(node.left, index)
         IN  <<lr[1],
               IF lr[2] # Null THEN concat(lr[2], node.right) ELSE node.right>>
    ELSE LET lr == split(node.right, index - node.weight)
         IN  <<IF lr[1] # Null THEN concat(node.left, lr[1]) ELSE node.left,
               lr[2]>>

length(r) == IF r # Null THEN getNodeWeight(r) ELSE 0

RECURSIVE toString(_)
toString(node) ==
    IF node = Null THEN <<>>
    ELSE IF node.type = "LEAF" THEN node.value
    ELSE toString(node.left) \o toString(node.right)

RECURSIVE checkBalance(_)
checkBalance(node) ==
    IF node = Null THEN 0
    ELSE LET leftHeight == checkBalance(node.left)
         IN  IF leftHeight = -1 THEN -1
             ELSE LET rightHeight == checkBalance(node.right)
                  IN  IF rightHeight = -1 THEN -1
                      ELSE IF leftHeight - rightHeight > 1
                              \/ rightHeight - leftHeight > 1 THEN -1
                      ELSE Max(leftHeight, rightHeight) + 1

isBalanced(r) == checkBalance(r) # -1

\* One public call's outcome: the error it threw (NoError when it returned),
\* the value it returned and the root it left.
Outcome(e, v, r) == [error |-> e, value |-> v, root |-> r]

\* insert without the upper bound on index
insert_noUpperBound(r, index, text) ==
    IF index < 0
    THEN Outcome(IndexOutOfBounds, <<>>, r)
    ELSE IF r = Null
    THEN Outcome(NoError, <<>>, RopeNode(text))
    ELSE LET newNode == RopeNode(text)
             lr == split(r, index)
         IN  IF lr[1] # Null
             THEN Outcome(NoError, <<>>, concat(concat(lr[1], newNode), lr[2]))
             ELSE Outcome(NoError, <<>>, concat(newNode, lr[2]))

insert(r, index, text) ==
    IF index < 0 \/ index > length(r)
    THEN Outcome(IndexOutOfBounds, <<>>, r)
    ELSE IF r = Null
    THEN Outcome(NoError, <<>>, RopeNode(text))
    ELSE LET newNode == RopeNode(text)
             lr == split(r, index)
         IN  IF lr[1] # Null
             THEN Outcome(NoError, <<>>, concat(concat(lr[1], newNode), lr[2]))
             ELSE Outcome(NoError, <<>>, concat(newNode, lr[2]))

\* delete validating the range before it looks for the empty range
delete_validateFirst(r, start, end) ==
    IF start < 0 \/ end > length(r) \/ start > end
    THEN Outcome(InvalidRange, <<>>, r)
    ELSE IF start = end
    THEN Outcome(NoError, <<>>, r)
    ELSE LET lt == split(r, start)
             mr == split(lt[2], end - start)
         IN  Outcome(NoError, <<>>,
                     IF lt[1] # Null THEN concat(lt[1], mr[2]) ELSE mr[2])

delete(r, start, end) ==
    IF start = end
    THEN Outcome(NoError, <<>>, r)
    ELSE IF start < 0 \/ end > length(r) \/ start >= end
    THEN Outcome(InvalidRange, <<>>, r)
    ELSE LET lt == split(r, start)
             mr == split(lt[2], end - start)
         IN  Outcome(NoError, <<>>,
                     IF lt[1] # Null THEN concat(lt[1], mr[2]) ELSE mr[2])

\* the loop of charAt going left when the index equals the weight
RECURSIVE charAtWalk_leftOnEqual(_, _)
charAtWalk_leftOnEqual(node, currentIndex) ==
    IF node.type = "INTERNAL"
    THEN IF currentIndex <= node.weight
         THEN IF node.left = Null
              THEN Outcome(InvalidStructure, <<>>, Null)
              ELSE charAtWalk_leftOnEqual(node.left, currentIndex)
         ELSE IF node.right = Null
              THEN Outcome(InvalidStructure, <<>>, Null)
              ELSE charAtWalk_leftOnEqual(node.right,
                                          currentIndex - node.weight)
    ELSE IF currentIndex < 0 \/ currentIndex >= Len(node.value)
    THEN Outcome(IndexOutOfBounds, <<>>, Null)
    ELSE Outcome(NoError, <<node.value[currentIndex + 1]>>, Null)

\* The loop of charAt and the read of the leaf it ends in; value[i] is
\* undefined outside the leaf's value, and charAt then throws.
RECURSIVE charAtWalk(_, _)
charAtWalk(node, currentIndex) ==
    IF node.type = "INTERNAL"
    THEN IF currentIndex < node.weight
         THEN IF node.left = Null
              THEN Outcome(InvalidStructure, <<>>, Null)
              ELSE charAtWalk(node.left, currentIndex)
         ELSE IF node.right = Null
              THEN Outcome(InvalidStructure, <<>>, Null)
              ELSE charAtWalk(node.right, currentIndex - node.weight)
    ELSE IF currentIndex < 0 \/ currentIndex >= Len(node.value)
    THEN Outcome(IndexOutOfBounds, <<>>, Null)
    ELSE Outcome(NoError, <<node.value[currentIndex + 1]>>, Null)

charAt(r, index) ==
    IF r = Null \/ index < 0 \/ index >= length(r)
    THEN Outcome(IndexOutOfBounds, <<>>, r)
    ELSE LET w == charAtWalk(r, index)
         IN  Outcome(w.error, w.value, r)

\* substring putting back only what lies left of end
substring_dropRight(r, start, end) ==
    IF start < 0 \/ end > length(r) \/ start > end
    THEN Outcome(InvalidRange, <<>>, r)
    ELSE IF start = end
    THEN Outcome(NoError, <<>>, r)
    ELSE IF start = 0 /\ end = length(r)
    THEN Outcome(NoError, toString(r), r)
    ELSE LET lt == split(r, start)
             mr == split(lt[2], end - start)
             result == IF mr[1] # Null THEN toString(mr[1]) ELSE <<>>
             firstPart == IF lt[1] # Null THEN concat(lt[1], mr[1]) ELSE mr[1]
         IN  Outcome(NoError, result, firstPart)

substring(r, start, end) ==
    IF start < 0 \/ end > length(r) \/ start > end
    THEN Outcome(InvalidRange, <<>>, r)
    ELSE IF start = end
    THEN Outcome(NoError, <<>>, r)
    ELSE IF start = 0 /\ end = length(r)
    THEN Outcome(NoError, toString(r), r)
    ELSE LET lt == split(r, start)
             mr == split(lt[2], end - start)
             result == IF mr[1] # Null THEN toString(mr[1]) ELSE <<>>
             firstPart == IF lt[1] # Null THEN concat(lt[1], mr[1]) ELSE mr[1]
         IN  Outcome(NoError, result,
                     IF mr[2] # Null THEN concat(firstPart, mr[2])
                     ELSE firstPart)

rebalance(r) ==
    LET str == toString(r)
    IN  Outcome(NoError, <<>>, createOptimalTree(str, 0, Len(str)))

\* new Rope(initialString): the empty string is falsy and leaves root null
Rope(initialString) ==
    IF initialString # <<>>
    THEN createOptimalTree(initialString, 0, Len(initialString))
    ELSE Null

-----------------------------------------------------------------------------
(* The inputs of the calls *)

\* a string of n characters that cycles through the characters of letters
Text(n, letters) == [i \in 1..n |-> letters[((i - 1) % Len(letters)) + 1]]

\* one character more than a leaf built by createOptimalTree can hold
OverThreshold == LEAF_LENGTH_THRESHOLD + 1

\* the shortest string createOptimalTree turns into a tree of height 4
\* whose two halves both have height 3
FourLevels == 4 * LEAF_LENGTH_THRESHOLD + 2

\* the empty string, one leaf, two leaves, eight leaves
InitialStrings ==
    {<<>>, <<"a", "b", "c">>, Text(OverThreshold, <<"a", "b", "c">>),
     Text(FourLevels, <<"a", "b", "c">>)}

Texts == {<<>>, <<"x">>, Text(OverThreshold, <<"y", "z">>)}

\* positions around both ends of the rope, the two outside it included
Indices == {-1, 0, 1, length(root), length(root) + 1}

\* the offsets at which the leaves under node end, node's text starting at base
RECURSIVE leafEnds(_, _)
leafEnds(node, base) ==
    IF node = Null THEN {}
    ELSE IF node.type = "LEAF" THEN {base + Len(node.value)}
    ELSE leafEnds(node.left, base)
             \cup leafEnds(node.right, base + getNodeWeight(node.left))

\* for charAt, also the last character of every leaf and the first of the next
CharIndices ==
    Indices \cup leafEnds(root, 0) \cup {b - 1 : b \in leafEnds(root, 0)}

EditTexts == {<<>>, <<"x">>}

EditIndices == {0, 1, length(root)}

Call(op, index, start, end, text) ==
    [op |-> op, index |-> index, start |-> start, end |-> end, text |-> text]

\* String.prototype.slice(a, b) for 0 <= a, 0 <= b
slice(s, a, b) == SubSeq(s, Min(a, Len(s)) + 1, Min(b, Len(s)))

\* the reference string after the splice that replaces [start, end) by text
Splice(s, start, end, text) ==
    slice(s, 0, start) \o text \o slice(s, end, Len(s))

-----------------------------------------------------------------------------
(* The public calls *)

Insert(index, text) ==
    LET o == insert(root, index, text)
    IN  /\ budget > 0
        /\ prev' = root
        /\ call' = Call("insert", index, 0, 0, text)
        /\ ret' = [error |-> o.error, value |-> o.value]
        /\ root' = o.root
        /\ ref' = IF o.error = NoError THEN Splice(ref, index, index, text)
                  ELSE ref
        /\ budget' = budget - 1

Delete(start, end) ==
    LET o == delete(root, start, end)
    IN  /\ budget > 0
        /\ prev' = root
        /\ call' = Call("delete", 0, start, end, <<>>)
        /\ ret' = [error |-> o.error, value |-> o.value]
        /\ root' = o.root
        /\ ref' = IF o.error = NoError /\ start < end
                  THEN Splice(ref, start, end, <<>>)
                  ELSE ref
        /\ budget' = budget - 1

CharAt(index) ==
    LET o == charAt(root, index)
    IN  /\ budget > 0
        /\ prev' = root
        /\ call' = Call("charAt", index, 0, 0, <<>>)
        /\ ret' = [error |-> o.error, value |-> o.value]
        /\ root' = o.root
        /\ budget' = budget - 1
        /\ UNCHANGED ref

Substring(start, end) ==
    LET o == substring(root, start, end)
    IN  /\ budget > 0
        /\ prev' = root
        /\ call' = Call("substring", 0, start, end, <<>>)
        /\ ret' = [error |-> o.error, value |-> o.value]
        /\ root' = o.root
        /\ budget' = budget - 1
        /\ UNCHANGED ref

Rebalance ==
    LET o == rebalance(root)
    IN  /\ budget > 0
        /\ prev' = root
        /\ call' = Call("rebalance", 0, 0, 0, <<>>)
        /\ ret' = [error |-> o.error, value |-> o.value]
        /\ root' = o.root
        /\ budget' = budget - 1
        /\ UNCHANGED ref

Construct(initialString, calls) ==
    /\ root = Rope(initialString)
    /\ prev = Null
    /\ ref = initialString
    /\ call = Call("construct", 0, 0, 0, initialString)
    /\ ret = [error |-> NoError, value |-> <<>>]
    /\ budget = calls

Init == \E s \in InitialStrings : Construct(s, MaxOps)

Next ==
    \/ \E i \in Indices, t \in Texts : Insert(i, t)
    \/ \E s \in Indices, e \in Indices : Delete(s, e)
    \/ \E i \in CharIndices : CharAt(i)
    \/ \E s \in Indices, e \in Indices : Substring(s, e)
    \/ Rebalance

Spec == Init /\ [][Next]_vars

\* Edits only, all with valid arguments
InitEdit == \E s \in InitialStrings : Construct(s, MaxEdits)

NextEdit ==
    \/ \E i \in EditIndices, t \in EditTexts : Insert(i, t)
    \/ \E s \in EditIndices, e \in EditIndices : s < e /\ Delete(s, e)

SpecEdit == InitEdit /\ [][NextEdit]_vars

-----------------------------------------------------------------------------
(* What the properties speak of *)

\* the number of nodes on the longest path from node down to a leaf
RECURSIVE Height(_)
Height(node) ==
    IF node = Null THEN 0
    ELSE IF node.type = "LEAF" THEN 1
    ELSE 1 + Max(Height(node.left), Height(node.right))

\* every internal node's children differ in height by at most one
RECURSIVE AvlBalanced(_)
AvlBalanced(node) ==
    \/ node = Null
    \/ node.type = "LEAF"
    \/ /\ Height(node.left) - Height(node.right) \in {-1, 0, 1}
       /\ AvlBalanced(node.left)
       /\ AvlBalanced(node.right)

\* the cached weight and height of every node are the true ones
RECURSIVE MetadataExact(_)
MetadataExact(node) ==
    \/ node = Null
    \/ /\ node.type = "LEAF"
       /\ node.weight = Len(node.value)
       /\ node.height = 1
    \/ /\ node.type = "INTERNAL"
       /\ node.weight = Len(toString(node.left))
       /\ node.height = Height(node)
       /\ MetadataExact(node.left)
       /\ MetadataExact(node.right)

\* no leaf holds more than the threshold
RECURSIVE LeavesWithinThreshold(_)
LeavesWithinThreshold(node) ==
    \/ node = Null
    \/ node.type = "LEAF" /\ Len(node.value) <= LEAF_LENGTH_THRESHOLD
    \/ /\ node.type = "INTERNAL"
       /\ LeavesWithinThreshold(node.left)
       /\ LeavesWithinThreshold(node.right)

\* MinTotal[h] is the least m with h <= 1.44 * log2(m), that is with
\* 2^(25 h) <= m^36
MinTotal == <<2, 3, 5, 7, 12, 18, 30, 48, 77, 124, 200, 323>>

\* h <= 1.44 * log2(n + 2), for the heights the table covers
HeightWithinBound(h, n) ==
    h = 0 \/ (h <= Len(MinTotal) /\ n + 2 >= MinTotal[h])

Returned == ret.error = NoError

-----------------------------------------------------------------------------
(* The properties *)

C2_BalancedAfterMutation ==
    call.op \in {"insert", "delete", "substring"} /\ Returned
        => AvlBalanced(root) /\ isBalanced(root)

\* C3: after any sequence of valid insert and delete calls the height of the
\* tree is at most 1.44 * log2(length() + 2).
C3_HeightBound == HeightWithinBound(Height(root), length(root))

\* C4: substring(s, e) with 0 <= s <= e <= length() returns
\* toString().slice(s, e) and leaves toString() as it was.
C4_Substring ==
    /\ call.op = "substring"
    /\ 0 <= call.start
    /\ call.start <= call.end
    /\ call.end <= length(prev)
    => /\ Returned
       /\ ret.value = slice(toString(prev), call.start, call.end)
       /\ toString(root) = toString(prev)

\* substring took a proper part out of a tree and put the tree together again
C4_Witness ==
    /\ call.op = "substring"
    /\ Returned
    /\ prev.type = "INTERNAL"
    /\ 0 < call.start
    /\ call.start < call.end
    /\ ret.value # <<>>
    /\ root # prev

C6_InvalidArguments ==
    /\ /\ call.op = "insert"
       /\ (call.index < 0 \/ call.index > length(prev))
       => ret.error = IndexOutOfBounds /\ root = prev
    /\ /\ call.op = "delete"
       /\ call.start # call.end
       /\ (call.start < 0 \/ call.end > length(prev) \/ call.start > call.end)
       => ret.error = InvalidRange /\ root = prev

\* insert past the end of a tree was refused
C6_Witness ==
    /\ call.op = "insert"
    /\ call.index > length(prev)
    /\ prev.type = "INTERNAL"
    /\ ret.error = IndexOutOfBounds

\* C7: delete(k, k) throws nothing and leaves the rope as it was, whatever k.
C7_EmptyRange ==
    call.op = "delete" /\ call.start = call.end
        => Returned /\ root = prev

\* delete(k, k) with k past the end returned
C7_Witness ==
    /\ call.op = "delete"
    /\ call.start = call.end
    /\ call.start > length(prev)
    /\ Returned

\* C8: after rebalance() isBalanced() is true and toString() is what it was;
\* a rope just constructed is balanced and holds the string it was given.
C8_Rebalance ==
    /\ call.op = "rebalance"
       => /\ Returned
          /\ isBalanced(root)
          /\ toString(root) = toString(prev)
    /\ call.op = "construct"
       => isBalanced(root) /\ toString(root) = call.text

\* rebalance was called on a tree that was not balanced
C8_Witness ==
    /\ call.op = "rebalance"
    /\ ~isBalanced(prev)
    /\ root.type = "INTERNAL"

\* C9: in every node of the tree the cached weight is the length of the left
\* subtree's text (of the value, in a leaf) and the cached height is the true
\* height.
C9_MetadataExact == MetadataExact(root)

\* the last concat of an insert made a node too heavy on the right and
\* rotated it
C9_Witness ==
    /\ call.op = "insert"
    /\ Returned
    /\ prev # Null
    /\ LET lr == split(prev, call.index)
       IN  /\ lr[1] = Null
           /\ lr[2].type = "INTERNAL"
           /\ 1 - lr[2].height < -1
    /\ root.left.type = "INTERNAL"

\* C10: no leaf ever holds more than LEAF_LENGTH_THRESHOLD characters.
C10_LeafLimit == LeavesWithinThreshold(root)

=============================================================================
